---------------------------- MODULE Spec2Model ----------------------------
(***************************************************************************)
(* A model of the Blowfish implementation in blowfish.cpp: the constant    *)
(* tables, the Converter32 union, GCD, Blowfish::SetKey, the buffer-level  *)
(* Encrypt / Decrypt, the block-level EncryptBlock / DecryptBlock and the  *)
(* Feistel function.                                                       *)
(*                                                                         *)
(* A uint32_t is a 4-tuple of bytes written most significant byte first:   *)
(* <<78, 249, 151, 69>> is 0x4EF99745.  Additions are carried out byte by  *)
(* byte with carries and the carry out of bit 31 is dropped, which is the  *)
(* arithmetic modulo 2^32 of the source.                                   *)
(***************************************************************************)
EXTENDS Integers, Sequences, FiniteSets, Bags, TLC

(***************************************************************************)
(* Program constants.                                                      *)
(***************************************************************************)
pary_length == 18
sbox_rows == 4
sbox_cols == 256
sbox_length == sbox_rows * sbox_cols
Rounds == 16
WordBytes == 4
BlockBytes == 8
ByteRange == 256

Byte == 0 .. (ByteRange - 1)
Word == [1 .. WordBytes -> Byte]

\* The value of a one-element set: { e(v) : v \in { d } } is e with v bound
\* to the value of d, so that d is computed once.
TheOnly(S) == CHOOSE x \in S : TRUE

(***************************************************************************)
(* Bitwise exclusive or and wrap-around addition of 32-bit words.          *)
(***************************************************************************)
RECURSIVE XorBits(_, _, _)
XorBits(a, b, n) ==
    IF n = 0 THEN 0
    ELSE ((a + b) % 2) + 2 * XorBits(a \div 2, b \div 2, n - 1)

\* The exclusive or of two 4-bit values, tabulated once.
NibbleXor == [ a \in 0 .. 15 |-> [ b \in 0 .. 15 |-> XorBits(a, b, 4) ] ]

XorByte(a, b) ==
    16 * NibbleXor[a \div 16][b \div 16] + NibbleXor[a % 16][b % 16]

Xor32(x, y) ==
    << XorByte(x[1], y[1]), XorByte(x[2], y[2]),
       XorByte(x[3], y[3]), XorByte(x[4], y[4]) >>

\* The 16-bit halves of a word, and a word from its halves.
Low16(x) == x[3] * ByteRange + x[4]
High16(x) == x[1] * ByteRange + x[2]
Half16 == ByteRange * ByteRange

WordOf(hi, lo) ==
    << hi \div ByteRange, hi % ByteRange, lo \div ByteRange, lo % ByteRange >>

\* x + y modulo 2^32: the sum of the low halves carries into the sum of the
\* high halves, and the carry out of the high halves is dropped.
Add32(x, y) ==
    TheOnly({ WordOf((High16(x) + High16(y) + (lo \div Half16)) % Half16, lo % Half16) :
              lo \in { Low16(x) + Low16(y) } })

ZeroWord == << 0, 0, 0, 0 >>

(***************************************************************************)
(* The build: the byte order of the host and the branch of Converter32     *)
(* the preprocessor selects.  A compiler that defines neither macro gets   *)
(* the __LITTLE_ENDIAN__ branch (lines 11-13) on every host.               *)
(***************************************************************************)
Builds ==
    { [host |-> "little", macro |-> "__LITTLE_ENDIAN__"],
      [host |-> "big",    macro |-> "__BIG_ENDIAN__"],
      [host |-> "big",    macro |-> "__LITTLE_ENDIAN__"] }

\* Offset within the union of the member bit_8.byte<n>.
FieldOffset(b, n) == IF b.macro = "__LITTLE_ENDIAN__" THEN 3 - n ELSE n

\* Position in the msb-first tuple of the byte stored at offset k of a uint32_t.
TupleIndex(b, k) == IF b.host = "little" THEN 4 - k ELSE k + 1

\* converter.bit_32 = w; read converter.bit_8.byte<n>.
ConverterByte(b, w, n) == w[TupleIndex(b, FieldOffset(b, n))]

\* converter.bit_8.byte0..byte3 = b0..b3; read converter.bit_32.
ConverterWord(b, b0, b1, b2, b3) ==
    LET f == << b0, b1, b2, b3 >>
        g(t) == f[1 + (CHOOSE n \in 0 .. 3 : TupleIndex(b, FieldOffset(b, n)) = t)]
    IN  << g(1), g(2), g(3), g(4) >>

(***************************************************************************)
(* The constant tables.  The initialiser lists of the source are empty, so *)
(* every element is value-initialised to zero.                             *)
(***************************************************************************)
initial_pary == [ i \in 0 .. (pary_length - 1) |-> ZeroWord ]

initial_sbox == [ r \in 0 .. (sbox_rows - 1) |-> [ c \in 0 .. (sbox_cols - 1) |-> ZeroWord ] ]

(***************************************************************************)
(* Feistel, EncryptBlock and DecryptBlock.  A block is <<left, right>>.    *)
(***************************************************************************)
Feistel(b, sbox, value) ==
    LET a0 == ConverterByte(b, value, 0)
        b1 == ConverterByte(b, value, 1)
        c2 == ConverterByte(b, value, 2)
        d3 == ConverterByte(b, value, 3)
    IN  Add32(Xor32(Add32(sbox[0][a0], sbox[1][b1]), sbox[2][c2]), sbox[3][d3])

\* One round: *left ^= p; *right ^= Feistel(*left); swap.
Round(b, sbox, p, blk) ==
    TheOnly({ << Xor32(blk[2], Feistel(b, sbox, l)), l >> :
              l \in { Xor32(blk[1], p) } })

\* Iterations n .. Rounds-1 of the loop of EncryptBlock, each iteration's
\* result bound before the next is taken.
RECURSIVE EncryptRounds(_, _, _, _, _)
EncryptRounds(b, pary, sbox, blk, n) ==
    IF n = Rounds THEN blk
    ELSE TheOnly({ EncryptRounds(b, pary, sbox, next, n + 1) :
                     next \in { Round(b, sbox, pary[n], blk) } })

EncryptBlock(b, pary, sbox, blk) ==
    \* e is <<*left, *right>> after the loop; the last swap is undone.
    TheOnly({ << Xor32(e[2], pary[17]), Xor32(e[1], pary[16]) >> :
              e \in { EncryptRounds(b, pary, sbox, blk, 0) } })

\* Iterations n .. Rounds-1 of the loop of DecryptBlock.
RECURSIVE DecryptRounds(_, _, _, _, _)
DecryptRounds(b, pary, sbox, blk, n) ==
    IF n = Rounds THEN blk
    ELSE TheOnly({ DecryptRounds(b, pary, sbox, next, n + 1) :
                     next \in { Round(b, sbox, pary[17 - n], blk) } })

\* DecryptBlock with the two final XORs exchanged.
DecryptBlockSwappedFinal(b, pary, sbox, blk) ==
    TheOnly({ << Xor32(e[2], pary[1]), Xor32(e[1], pary[0]) >> :
              e \in { DecryptRounds(b, pary, sbox, blk, 0) } })

DecryptBlock(b, pary, sbox, blk) ==
    TheOnly({ << Xor32(e[2], pary[0]), Xor32(e[1], pary[1]) >> :
              e \in { DecryptRounds(b, pary, sbox, blk, 0) } })

(***************************************************************************)
(* C++ integer division and remainder truncate towards zero.               *)
(***************************************************************************)
Abs(a) == IF a < 0 THEN 0 - a ELSE a

CRem(a, b) == IF a < 0 THEN 0 - (Abs(a) % Abs(b)) ELSE a % Abs(b)

CDiv(a, b) ==
    IF (a < 0) = (b < 0) THEN Abs(a) \div Abs(b) ELSE 0 - (Abs(a) \div Abs(b))

RECURSIVE GCDLoop(_, _)
GCDLoop(gcd_prev, gcd) ==
    LET gcd_next == CRem(gcd_prev, gcd)
    IN  IF gcd_next # 0 THEN GCDLoop(gcd, gcd_next) ELSE gcd

GCD(larger, smaller) == GCDLoop(larger, smaller)

(***************************************************************************)
(* SetKey, steps 2 to 4: the temporary buffer of key words and the XOR of  *)
(* the key material into the P-array.                                      *)
(***************************************************************************)
\* The number of words that hold the key once, rounded up.
BufferLengthOnce(n) == (n + WordBytes - 1) \div WordBytes

BufferLength(byte_length) == CDiv(byte_length, GCD(byte_length, WordBytes))

KeyWord(b, k, byte_length, n) ==
    ConverterWord(b, k[CRem(n * 4, byte_length)],
                     k[CRem(n * 4 + 1, byte_length)],
                     k[CRem(n * 4 + 2, byte_length)],
                     k[CRem(n * 4 + 3, byte_length)])

KeyBuffer(b, k, byte_length, buffer_length) ==
    [ n \in 0 .. (buffer_length - 1) |-> KeyWord(b, k, byte_length, n) ]

XorKey(pary, key_buffer, buffer_length) ==
    [ n \in 0 .. (pary_length - 1) |-> Xor32(pary[n], key_buffer[n % buffer_length]) ]

(***************************************************************************)
(* SetKey, step 5: one iteration of each of the two expansion loops.  ks   *)
(* is [pary, sbox, left, right]; the S-boxes are addressed as one flat     *)
(* array of sbox_length words.                                             *)
(***************************************************************************)
ExpandParyStep(b, ks, n) ==
    TheOnly({ [ pary  |-> [ ks.pary EXCEPT ![n * 2] = e[1], ![n * 2 + 1] = e[2] ],
          sbox  |-> ks.sbox,
          left  |-> e[1],
          right |-> e[2] ] :
      e \in { EncryptBlock(b, ks.pary, ks.sbox, << ks.left, ks.right >>) } })

FlatWrite(sbox, j, w) == [ sbox EXCEPT ![j \div sbox_cols][j % sbox_cols] = w ]

\* ExpandSboxStep with the running pair started again from zero.
ExpandSboxStepRestart(b, ks, n) ==
    TheOnly({ [ pary  |-> ks.pary,
          sbox  |-> FlatWrite(FlatWrite(ks.sbox, n * 2, e[1]), n * 2 + 1, e[2]),
          left  |-> e[1],
          right |-> e[2] ] :
      e \in { EncryptBlock(b, ks.pary, ks.sbox, << ZeroWord, ZeroWord >>) } })

ExpandSboxStep(b, ks, n) ==
    TheOnly({ [ pary  |-> ks.pary,
          sbox  |-> FlatWrite(FlatWrite(ks.sbox, n * 2, e[1]), n * 2 + 1, e[2]),
          left  |-> e[1],
          right |-> e[2] ] :
      e \in { EncryptBlock(b, ks.pary, ks.sbox, << ks.left, ks.right >>) } })


(***************************************************************************)
(* State.                                                                  *)
(*   build          the build the program was compiled for                 *)
(*   pary_, sbox_   the members of the Blowfish object                     *)
(*   pc             where the object's caller is: "new" (constructed, no   *)
(*                  key yet), inside SetKey ("expand_pary", "expand_sbox"),*)
(*                  "returned" (SetKey returned), "failed" (SetKey threw), *)
(*                  "crashed" (the process was killed)                     *)
(*   key, byte_length                the arguments of the last SetKey      *)
(*   buffer_length, idx, left, right the locals of SetKey                  *)
(*   err            how the last SetKey ended                              *)
(*   calls          the Encrypt / Decrypt calls in progress or finished    *)
(*                  and not yet released, a bag of records                 *)
(*   blk0, blk, stage, fout   a block handed to the block-level functions: *)
(*                  its first value, its current value, what has been      *)
(*                  applied to it, and the last result of Feistel          *)
(***************************************************************************)
VARIABLES build, pary_, sbox_, pc, key, byte_length, buffer_length, idx,
          left, right, err, calls, blk0, blk, stage, fout

vars == << build, pary_, sbox_, pc, key, byte_length, buffer_length, idx,
           left, right, err, calls, blk0, blk, stage, fout >>

cipherVars == << build, pary_, sbox_ >>
keyVars == << pc, key, byte_length, buffer_length, idx, left, right, err >>
blockVars == << blk0, blk, stage, fout >>

(***************************************************************************)
(* Bounds of the model.                                                    *)
(***************************************************************************)
MaxKeyLen == 8
MaxNegLen == 4
MaxUninit == 1
MaxBlocks == 2
MaxConcBlocks == 2
MaxCalls == 2
TailLen == 3
MaxContents == 3

(***************************************************************************)
(* The members of a Blowfish object are not initialised by anything in the *)
(* source before SetKey: a new object holds indeterminate words.           *)
(***************************************************************************)
UninitPary(u) ==
    [ n \in 0 .. (pary_length - 1) |->
        << (n * 13 + u * 101 + 7) % ByteRange, (n * 29 + u * 53 + 1) % ByteRange,
           (n * 57 + u * 17 + 90) % ByteRange, (n * 111 + u * 31 + 200) % ByteRange >> ]

UninitSbox(u) ==
    [ r \in 0 .. (sbox_rows - 1) |-> [ c \in 0 .. (sbox_cols - 1) |->
        << (c * 5 + r * 67 + u * 11) % ByteRange, (c * 11 + r * 3 + u * 7 + 128) % ByteRange,
           (c * c + r * 41 + u) % ByteRange, (c * 3 + r * 17 + u * 29 + 255) % ByteRange >> ] ]

PatternKey(n) == [ j \in 0 .. (n - 1) |-> (j * 37 + n * 59 + 21) % ByteRange ]

ConstKey(n, v) == [ j \in 0 .. (n - 1) |-> v ]

KeyInput(k, n) == [ key |-> k, byte_length |-> n ]

\* Key schedule inputs: every length from -MaxNegLen to MaxKeyLen.  A caller
\* that passes a length <= 0 still holds a real buffer of MaxNegLen bytes.
SchedKeys ==
    { KeyInput(PatternKey(n), n) : n \in 1 .. MaxKeyLen }
    \cup { KeyInput(PatternKey(MaxNegLen), 0 - n) : n \in 0 .. MaxNegLen }

BufKeys == { KeyInput(ConstKey(8, 0), 8), KeyInput(ConstKey(8, 255), 8),
             KeyInput(PatternKey(5), 5) }

ConcKeys == { KeyInput(ConstKey(8, 255), 8) }

\* What an out-of-bounds read of the empty key buffer may return.
GarbageBuffers ==
    { [ n \in 0 .. (pary_length - 1) |->
          << (n * 7 + 3) % ByteRange, 255 - n, (n * n) % ByteRange, n >> ] }

(***************************************************************************)
(* SetKey up to and including step 4, as the set of ways the build may     *)
(* carry it out.  Step 1 has overwritten both members with the constants   *)
(* before anything about byte_length is looked at.                         *)
(*   buffer_length < 0: new uint32_t[buffer_length] throws.                *)
(*   byte_length = 0:   buffer_length is 0 and step 4 evaluates i % 0,     *)
(*                      undefined behaviour: the division traps, or it     *)
(*                      yields an index into the empty buffer.             *)
(***************************************************************************)
SetKeyBegin(b, k, n) ==
    LET bl == BufferLength(n)
    IN  IF bl < 0
        THEN { [ err |-> "bad_array_new_length", pary |-> initial_pary,
                 buffer_length |-> bl ] }
        ELSE IF bl = 0
        THEN { [ err |-> "SIGFPE", pary |-> initial_pary, buffer_length |-> bl ] }
             \cup { [ err |-> "none",
                      pary |-> [ m \in 0 .. (pary_length - 1) |->
                                   Xor32(initial_pary[m], g[m]) ],
                      buffer_length |-> bl ] : g \in GarbageBuffers }
        ELSE { [ err |-> "none",
                 pary |-> XorKey(initial_pary, KeyBuffer(b, k, n, bl), bl),
                 buffer_length |-> bl ] }

PcAfterBegin(e) ==
    IF e = "none" THEN "expand_pary" ELSE IF e = "SIGFPE" THEN "crashed" ELSE "failed"

\* The caller has exclusive access to the object while SetKey runs.
SetKeyCall(inputs) ==
    /\ pc \in { "new", "returned", "failed" }
    /\ calls = EmptyBag
    /\ \E inp \in inputs : \E o \in SetKeyBegin(build, inp.key, inp.byte_length) :
         /\ key' = inp.key
         /\ byte_length' = inp.byte_length
         /\ buffer_length' = o.buffer_length
         /\ pary_' = o.pary
         /\ sbox_' = initial_sbox
         /\ err' = o.err
         /\ pc' = PcAfterBegin(o.err)
    /\ idx' = 0
    /\ left' = ZeroWord
    /\ right' = ZeroWord
    /\ UNCHANGED << build, calls, blockVars >>

ExpandPary ==
    /\ pc = "expand_pary"
    /\ idx < pary_length \div 2
    /\ \E ks \in { ExpandParyStep(build,
                   [ pary |-> pary_, sbox |-> sbox_, left |-> left, right |-> right ], idx) } :
           /\ pary_' = ks.pary
           /\ sbox_' = ks.sbox
           /\ left' = ks.left
           /\ right' = ks.right
    /\ IF idx + 1 < pary_length \div 2
       THEN idx' = idx + 1 /\ pc' = pc
       ELSE idx' = 0 /\ pc' = "expand_sbox"
    /\ UNCHANGED << build, key, byte_length, buffer_length, err, calls, blockVars >>

ExpandSbox ==
    /\ pc = "expand_sbox"
    /\ idx < sbox_length \div 2
    /\ \E ks \in { ExpandSboxStep(build,
                   [ pary |-> pary_, sbox |-> sbox_, left |-> left, right |-> right ], idx) } :
           /\ pary_' = ks.pary
           /\ sbox_' = ks.sbox
           /\ left' = ks.left
           /\ right' = ks.right
    /\ idx' = idx + 1
    /\ UNCHANGED << build, pc, key, byte_length, buffer_length, err, calls, blockVars >>

SetKeyReturn ==
    /\ pc = "expand_sbox"
    /\ idx = sbox_length \div 2
    /\ pc' = "returned"
    /\ UNCHANGED << cipherVars, key, byte_length, buffer_length, idx, left, right,
                    err, calls, blockVars >>

NoKey == << >>
NoBlock == << ZeroWord, ZeroWord >>

InitObject ==
    /\ build \in Builds
    /\ \E u \in 1 .. MaxUninit : pary_ = UninitPary(u) /\ sbox_ = UninitSbox(u)
    /\ pc = "new"
    /\ key = NoKey
    /\ byte_length = 0
    /\ buffer_length = 0
    /\ idx = 0
    /\ left = ZeroWord
    /\ right = ZeroWord
    /\ err = "none"
    /\ calls = EmptyBag

NoBlockUse == blk0 = NoBlock /\ blk = NoBlock /\ stage = "unused" /\ fout = ZeroWord

InitKey == InitObject /\ NoBlockUse

KeySetKeyCall == SetKeyCall(SchedKeys)

NextKey == KeySetKeyCall \/ ExpandPary \/ ExpandSbox \/ SetKeyReturn

SpecKey == InitKey /\ [][NextKey]_vars


(***************************************************************************)
(* Byte buffers are sequences of bytes; the byte at offset j is buf[j+1].  *)
(* reinterpret_cast<uint32_t*>(dst)[w] is the word the host reads from the *)
(* four bytes at offset 4w.                                                *)
(***************************************************************************)
LoadWord(b, buf, w) ==
    << buf[4 * w + 1 + (IF b.host = "little" THEN 3 ELSE 0)],
       buf[4 * w + 1 + (IF b.host = "little" THEN 2 ELSE 1)],
       buf[4 * w + 1 + (IF b.host = "little" THEN 1 ELSE 2)],
       buf[4 * w + 1 + (IF b.host = "little" THEN 0 ELSE 3)] >>

WordBytesOf(b, w) ==
    IF b.host = "little" THEN << w[4], w[3], w[2], w[1] >> ELSE w

\* buf with the words at word indices 2n and 2n+1 replaced by e[1] and e[2].
StoreBlock(b, buf, n, e) ==
    SubSeq(buf, 1, BlockBytes * n) \o WordBytesOf(b, e[1]) \o WordBytesOf(b, e[2])
      \o SubSeq(buf, BlockBytes * (n + 1) + 1, Len(buf))

\* std::memcpy(dst, src, n)
Memcpy(dst, src, n) == SubSeq(src, 1, n) \o SubSeq(dst, n + 1, Len(dst))

\* What a destination buffer distinct from the source holds before the call.
StaleBytes(n) == [ j \in 1 .. n |-> (j * 91 + 170) % ByteRange ]

\* The block count with the length decremented before the division.
BlockCountShort(n) == (n - 1) \div BlockBytes

\* byte_length / sizeof(uint64_t)
BlockCount(n) == n \div BlockBytes

\* The state of a call right after the copy at the head of Encrypt / Decrypt.
NewCall(op, src, inplace) ==
    [ op  |-> op,
      src |-> src,
      dst |-> IF inplace THEN src ELSE Memcpy(StaleBytes(Len(src)), src, Len(src)),
      i   |-> 0 ]

\* An iteration that XORs the block before it into the block it encrypts.
EncryptIterationChained(b, pary, sbox, c) ==
    TheOnly({ [ c EXCEPT !.dst = StoreBlock(b, c.dst, c.i, e), !.i = c.i + 1 ] :
              e \in { EncryptBlock(b, pary, sbox,
                        IF c.i = 0
                        THEN << LoadWord(b, c.dst, 0), LoadWord(b, c.dst, 1) >>
                        ELSE << Xor32(LoadWord(b, c.dst, c.i * 2),
                                      LoadWord(b, c.dst, c.i * 2 - 2)),
                                Xor32(LoadWord(b, c.dst, c.i * 2 + 1),
                                      LoadWord(b, c.dst, c.i * 2 - 1)) >>) } })

\* One iteration of the loop of Encrypt.
EncryptIteration(b, pary, sbox, c) ==
    TheOnly({ [ c EXCEPT !.dst = StoreBlock(b, c.dst, c.i, e), !.i = c.i + 1 ] :
              e \in { EncryptBlock(b, pary, sbox,
                        << LoadWord(b, c.dst, c.i * 2), LoadWord(b, c.dst, c.i * 2 + 1) >>) } })

\* One iteration of the loop of Decrypt.
DecryptIteration(b, pary, sbox, c) ==
    TheOnly({ [ c EXCEPT !.dst = StoreBlock(b, c.dst, c.i, e), !.i = c.i + 1 ] :
              e \in { DecryptBlock(b, pary, sbox,
                        << LoadWord(b, c.dst, c.i * 2), LoadWord(b, c.dst, c.i * 2 + 1) >>) } })

Finished(c) == ~ (c.i < BlockCount(Len(c.src)))

One(c) == SetToBag({ c })

\* The object is used for encryption only once SetKey has returned.
EncryptCall(inputs, maxCalls) ==
    /\ pc = "returned"
    /\ BagCardinality(calls) < maxCalls
    /\ \E src \in inputs, inplace \in BOOLEAN :
         calls' = calls (+) One(NewCall("Encrypt", src, inplace))
    /\ UNCHANGED << cipherVars, keyVars, blockVars >>

DecryptCall(inputs, maxCalls) ==
    /\ pc = "returned"
    /\ BagCardinality(calls) < maxCalls
    /\ \E src \in inputs, inplace \in BOOLEAN :
         calls' = calls (+) One(NewCall("Decrypt", src, inplace))
    /\ UNCHANGED << cipherVars, keyVars, blockVars >>

\* A step of Encrypt that keeps the block it works on in the object.
EncryptStepScratch ==
    /\ \E c \in BagToSet(calls) :
         /\ c.op = "Encrypt"
         /\ ~ Finished(c)
         /\ calls' = (calls (-) One(c)) (+) One(EncryptIteration(build, pary_, sbox_, c))
         /\ pary_' = [ pary_ EXCEPT ![0] = LoadWord(build, c.dst, c.i * 2) ]
    /\ UNCHANGED << build, sbox_, keyVars, blockVars >>

EncryptStep ==
    /\ \E c \in BagToSet(calls) :
         /\ c.op = "Encrypt"
         /\ ~ Finished(c)
         /\ calls' = (calls (-) One(c)) (+) One(EncryptIteration(build, pary_, sbox_, c))
    /\ UNCHANGED << cipherVars, keyVars, blockVars >>

DecryptStep ==
    /\ \E c \in BagToSet(calls) :
         /\ c.op = "Decrypt"
         /\ ~ Finished(c)
         /\ calls' = (calls (-) One(c)) (+) One(DecryptIteration(build, pary_, sbox_, c))
    /\ UNCHANGED << cipherVars, keyVars, blockVars >>

\* The caller is done with the buffers of a finished call.
Release ==
    /\ \E c \in BagToSet(calls) : Finished(c) /\ calls' = calls (-) One(c)
    /\ UNCHANGED << cipherVars, keyVars, blockVars >>

(***************************************************************************)
(* Inputs of the buffer functions.                                         *)
(***************************************************************************)
ZeroBlock == << 0, 0, 0, 0, 0, 0, 0, 0 >>
BlockA == << 1, 35, 69, 103, 137, 171, 205, 239 >>
BlockB == << 254, 220, 186, 152, 118, 84, 50, 16 >>
SampleBlocks == { ZeroBlock, BlockA, BlockB }

TailBytes(n) == [ j \in 1 .. n |-> (j * 47 + 200) % ByteRange ]

RECURSIVE BlockSeqs(_)
BlockSeqs(k) ==
    IF k = 0 THEN { << >> }
    ELSE { s \o a : s \in BlockSeqs(k - 1), a \in SampleBlocks }

BufInputs ==
    { s \o TailBytes(r) : s \in UNION { BlockSeqs(k) : k \in 0 .. MaxBlocks },
                           r \in { 0, TailLen } }

ConcInputs ==
    { [ j \in 1 .. (BlockBytes * k) |-> (j * 73 + k * 19) % ByteRange ] :
        k \in 1 .. MaxConcBlocks }

BufSetKeyCall == SetKeyCall(BufKeys)
BufEncryptCall == EncryptCall(BufInputs, 1)
BufDecryptCall == DecryptCall(BufInputs, 1)

Init == InitObject /\ NoBlockUse

Next ==
    \/ BufSetKeyCall \/ ExpandPary \/ ExpandSbox \/ SetKeyReturn
    \/ BufEncryptCall \/ BufDecryptCall \/ EncryptStep \/ DecryptStep \/ Release

Spec == Init /\ [][Next]_vars

ConcSetKeyCall == SetKeyCall(ConcKeys)
ConcEncryptCall == EncryptCall(ConcInputs, MaxCalls)
ConcDecryptCall == DecryptCall(ConcInputs, MaxCalls)

NextConc ==
    \/ ConcSetKeyCall \/ ExpandPary \/ ExpandSbox \/ SetKeyReturn
    \/ ConcEncryptCall \/ ConcDecryptCall \/ EncryptStep \/ DecryptStep \/ Release

SpecConc == Init /\ [][NextConc]_vars

(***************************************************************************)
(* The block-level functions on their own, over CipherState contents that  *)
(* no key schedule need have produced.                                     *)
(***************************************************************************)
SampleWords ==
    { ZeroWord, << 255, 255, 255, 255 >>, << 1, 35, 69, 103 >>, << 128, 0, 254, 127 >> }

InitBlock ==
    /\ build \in Builds
    /\ \E u \in 1 .. MaxContents : pary_ = UninitPary(u) /\ sbox_ = UninitSbox(u)
    /\ pc = "new"
    /\ key = NoKey
    /\ byte_length = 0
    /\ buffer_length = 0
    /\ idx = 0
    /\ left = ZeroWord
    /\ right = ZeroWord
    /\ err = "none"
    /\ calls = EmptyBag
    /\ blk0 \in SampleWords \X SampleWords
    /\ blk = blk0
    /\ stage = "input"
    /\ fout = ZeroWord

BlockEncrypt ==
    /\ stage = "input"
    /\ blk' = EncryptBlock(build, pary_, sbox_, blk)
    /\ stage' = "encrypted"
    /\ UNCHANGED << cipherVars, keyVars, calls, blk0, fout >>

BlockDecrypt ==
    /\ stage = "encrypted"
    /\ blk' = DecryptBlock(build, pary_, sbox_, blk)
    /\ stage' = "decrypted"
    /\ UNCHANGED << cipherVars, keyVars, calls, blk0, fout >>

FeistelCall ==
    /\ stage = "input"
    /\ fout' = Feistel(build, sbox_, blk[1])
    /\ stage' = "feistel"
    /\ UNCHANGED << cipherVars, keyVars, calls, blk0, blk >>

NextBlock == BlockEncrypt \/ BlockDecrypt \/ FeistelCall

SpecBlock == InitBlock /\ [][NextBlock]_vars


(***************************************************************************)
(* Properties of the block-level functions (SpecBlock).                    *)
(***************************************************************************)

\* C1: for any CipherState contents and any block, DecryptBlock applied to
\* the output of EncryptBlock gives back the original (left, right).
C1_RoundTrip == stage = "decrypted" => blk = blk0

C1_RoundTripWitness ==
    /\ stage = "decrypted"
    /\ blk0 = << << 1, 35, 69, 103 >>, << 128, 0, 254, 127 >> >>
    /\ EncryptBlock(build, pary_, sbox_, blk0) # blk0
    /\ blk = blk0

\* The Feistel function as section 4.3 words it: a, b, c, d are the bytes of
\* x from the least significant (bits 0..7) to the most significant.
FeistelLsbFirst(sbox, x) ==
    Add32(Xor32(Add32(sbox[0][x[4]], sbox[1][x[3]]), sbox[2][x[2]]), sbox[3][x[1]])

\* C9: Feistel splits x into a = bits 0..7, b = bits 8..15, c = bits 16..23,
\* d = bits 24..31 and returns ((table0[a] + table1[b]) XOR table2[c]) +
\* table3[d], the additions modulo 2^32.
C9_FeistelLsbFirst == stage = "feistel" => fout = FeistelLsbFirst(sbox_, blk0[1])

(***************************************************************************)
(* Properties of the key schedule (SpecKey).                               *)
(***************************************************************************)

\* SetKey has just finished step 4 for a key of at least one byte.
KeyXored == pc = "expand_pary" /\ idx = 0 /\ byte_length >= 1

\* C2: SetKey with a length of 0 or a negative length fails with
\* InvalidKeyError and leaves pary_ and sbox_ as they were before the call.
C2_InvalidKeyRejected ==
    [][ (pc \in { "new", "returned", "failed" } /\ byte_length' <= 0)
          => (err' = "InvalidKeyError" /\ pary_' = pary_ /\ sbox_' = sbox_) ]_vars

LCM(a, b) == CHOOSE m \in 1 .. (a * b) :
                /\ m % a = 0 /\ m % b = 0
                /\ \A q \in 1 .. (m - 1) : ~ (q % a = 0 /\ q % b = 0)

BagOfBytes(w) == [ v \in { w[t] : t \in 1 .. WordBytes } |->
                     Cardinality({ t \in 1 .. WordBytes : w[t] = v }) ]

\* The key word XORed into subkey n, recovered from the subkey.
XoredWord(n) == Xor32(pary_[n], initial_pary[n])

\* C6: for a key of length >= 1 the word count is lcm(length, 4) / 4, and
\* the word XORed into subkey i is made of exactly the four key bytes
\* key[(4i + k) mod length], k = 0..3, of the endlessly repeated key.
C6_CyclicKeyStream ==
    KeyXored =>
      /\ buffer_length = LCM(byte_length, WordBytes) \div WordBytes
      /\ \A n \in 0 .. (pary_length - 1) :
           BagOfBytes(XoredWord(n)) =
             BagOfBytes(<< key[(4 * n) % byte_length], key[(4 * n + 1) % byte_length],
                           key[(4 * n + 2) % byte_length], key[(4 * n + 3) % byte_length] >>)

C6_CyclicKeyStreamWitness ==
    /\ KeyXored
    /\ byte_length = 7
    /\ buffer_length = 7
    /\ BagOfBytes(XoredWord(7)) = BagOfBytes(<< key[0], key[1], key[2], key[3] >>)
    /\ XoredWord(6) # XoredWord(7)

\* C10: each key word is packed little-endian, word[i] = key[b0] |
\* key[b1]<<8 | key[b2]<<16 | key[b3]<<24 with b_k = (4i + k) mod length,
\* and the packed word is the same on every build.
C10_LittleEndianPacking ==
    KeyXored =>
      \A n \in 0 .. (pary_length - 1) :
        /\ XoredWord(n) =
             << key[(4 * n + 3) % byte_length], key[(4 * n + 2) % byte_length],
                key[(4 * n + 1) % byte_length], key[(4 * n) % byte_length] >>
        /\ \A b \in Builds :
             KeyWord(b, key, byte_length, n % buffer_length) = XoredWord(n)

\* The state as one flat array: the 18 subkeys, then the S-boxes row by row.
FlatState(pary, sbox, j) ==
    IF j < pary_length THEN pary[j]
    ELSE sbox[(j - pary_length) \div sbox_cols][(j - pary_length) % sbox_cols]

\* The number of block encryptions the key expansion has performed.
Encryptions ==
    IF pc = "expand_pary" THEN idx
    ELSE IF pc \in { "expand_sbox", "returned" } THEN (pary_length \div 2) + idx
    ELSE 0

Expanding == pc \in { "expand_pary", "expand_sbox" } /\ err = "none"

\* The words of the tables from flat table index j on still hold the constants.
TablesUntouchedFrom(j) ==
    \A r \in 0 .. (sbox_rows - 1) :
      IF sbox_cols * r >= j THEN sbox_[r] = initial_sbox[r]
      ELSE \A c \in 0 .. (sbox_cols - 1) :
             sbox_cols * r + c >= j => sbox_[r][c] = initial_sbox[r][c]

C8_Progress ==
    /\ (Expanding \/ pc = "returned") =>
         /\ Encryptions = 0 => (left = ZeroWord /\ right = ZeroWord)
         /\ Encryptions > 0 =>
              /\ FlatState(pary_, sbox_, 2 * Encryptions - 2) = left
              /\ FlatState(pary_, sbox_, 2 * Encryptions - 1) = right
         /\ IF 2 * Encryptions <= pary_length
            THEN sbox_ = initial_sbox
            ELSE TablesUntouchedFrom(2 * Encryptions - pary_length)
    /\ pc = "returned" => Encryptions = (pary_length \div 2) + (sbox_length \div 2)

\* pary and sbox with the flat words j and j + 1 (j even) replaced by l and r.
FlatPairWritten(pary, sbox, j, l, r) ==
    IF j < pary_length
    THEN << [ pary EXCEPT ![j] = l, ![j + 1] = r ], sbox >>
    ELSE << pary,
            [ sbox EXCEPT ![(j - pary_length) \div sbox_cols] =
                [ @ EXCEPT ![(j - pary_length) % sbox_cols] = l,
                           ![((j - pary_length) % sbox_cols) + 1] = r ] ] >>

C8_Step ==
    (Expanding /\ pc' # "returned") =>
      /\ << left', right' >> = EncryptBlock(build, pary_, sbox_, << left, right >>)
      /\ << pary_', sbox_' >> =
           FlatPairWritten(pary_, sbox_, 2 * Encryptions, left', right')

\* C8: key expansion is 9 + 512 block encryptions on one running pair that
\* starts at (0, 0) and is never reset; each output is the next input and is
\* written to the state, first to the subkey pairs in ascending order, then
\* to the tables in flattened ascending order, each word once, and every
\* encryption reads the state as left by all earlier writes.
C8_SequentialExpansion == [] C8_Progress /\ [][C8_Step]_vars

C8_SequentialExpansionWitness ==
    /\ pc = "expand_sbox"
    /\ idx = 300
    /\ byte_length = 5
    /\ sbox_[2][87] = right
    /\ sbox_[2][86] = left
    /\ left # ZeroWord
    /\ sbox_[2][88] = initial_sbox[2][88]


(***************************************************************************)
(* Properties of the buffer functions (Spec, SpecConc).                    *)
(***************************************************************************)
Block(buf, j) == SubSeq(buf, BlockBytes * j + 1, BlockBytes * (j + 1))

\* The 8 bytes a call on the 8-byte buffer a alone leaves in its destination.
SingleBlock(op, a) ==
    IF op = "Encrypt"
    THEN EncryptIteration(build, pary_, sbox_, NewCall(op, a, TRUE)).dst
    ELSE DecryptIteration(build, pary_, sbox_, NewCall(op, a, TRUE)).dst

KnownAnswerZeroKey == << 78, 249, 151, 69, 97, 152, 221, 120 >>
KnownAnswerOnesKey == << 81, 134, 111, 213, 184, 94, 203, 138 >>

\* C3: after SetKey with 8 zero bytes, Encrypt of 8 zero bytes gives
\* 4E F9 97 45 61 98 DD 78; after SetKey with 8 bytes FF it gives
\* 51 86 6F D5 B8 5E CB 8A.
C3_KnownAnswers ==
    \A c \in BagToSet(calls) :
      (pc = "returned" /\ c.op = "Encrypt" /\ Finished(c) /\ c.src = ZeroBlock) =>
        /\ key = ConstKey(8, 0) => c.dst = KnownAnswerZeroKey
        /\ key = ConstKey(8, 255) => c.dst = KnownAnswerOnesKey

\* C4: for byteLength = 8k + r, Encrypt and Decrypt transform exactly the
\* first k 8-byte blocks of dst and leave the last r bytes equal to the
\* source bytes; with byteLength = 0 nothing is transformed.
C4_WholeBlocksOnly ==
    \A c \in BagToSet(calls) :
      LET n == Len(c.src)
          k == n \div BlockBytes
      IN  /\ Len(c.dst) = n
          /\ c.i <= k
          /\ \A j \in 0 .. (k - 1) :
               Block(c.dst, j) = IF j < c.i THEN SingleBlock(c.op, Block(c.src, j))
                                 ELSE Block(c.src, j)
          /\ SubSeq(c.dst, BlockBytes * k + 1, n) = SubSeq(c.src, BlockBytes * k + 1, n)
          /\ Finished(c) <=> c.i = k

C4_WholeBlocksOnlyWitness ==
    \E c \in BagToSet(calls) :
      /\ Finished(c)
      /\ c.op = "Decrypt"
      /\ Len(c.src) = 2 * BlockBytes + TailLen
      /\ Block(c.dst, 0) # Block(c.src, 0)
      /\ Block(c.dst, 1) # Block(c.src, 1)
      /\ SubSeq(c.dst, 2 * BlockBytes + 1, Len(c.src)) = TailBytes(TailLen)

\* C5: Encrypt of the 16 bytes A ++ B gives the single-block encryption of A
\* followed by the single-block encryption of B: each output block depends
\* only on its own input block, not on the other block or on its position.
C5_BlockIndependence ==
    \A c \in BagToSet(calls) :
      (c.op = "Encrypt" /\ Finished(c) /\ Len(c.src) = 2 * BlockBytes) =>
        c.dst = SingleBlock("Encrypt", Block(c.src, 0))
                  \o SingleBlock("Encrypt", Block(c.src, 1))

C5_BlockIndependenceWitness ==
    \E c \in BagToSet(calls) :
      /\ c.op = "Encrypt"
      /\ Finished(c)
      /\ c.src = BlockA \o BlockB
      /\ Block(c.dst, 0) # BlockA
      /\ Block(c.dst, 1) # Block(c.dst, 0)
      /\ key = PatternKey(5)

\* The call c run to its end with nothing else going on.
RECURSIVE RunAlone(_)
RunAlone(c) ==
    IF Finished(c) THEN c
    ELSE TheOnly({ RunAlone(d) :
           d \in { IF c.op = "Encrypt" THEN EncryptIteration(build, pary_, sbox_, c)
                   ELSE DecryptIteration(build, pary_, sbox_, c) } })

C7_Outputs ==
    \A c \in BagToSet(calls) :
      Finished(c) => c.dst = RunAlone(NewCall(c.op, c.src, TRUE)).dst

C7_ReadOnly == (pc = "returned" /\ pc' = "returned") => (pary_' = pary_ /\ sbox_' = sbox_)

\* C7: once SetKey has returned, Encrypt and Decrypt write no subkey and no
\* table word: under every interleaving of concurrent calls on the object the
\* CipherState stays as it is and each call's output is what it would be alone.
C7_ConcurrentReadOnly == [] C7_Outputs /\ [][C7_ReadOnly]_vars

C7_ConcurrentReadOnlyWitness ==
    \E c \in BagToSet(calls), d \in BagToSet(calls) :
      /\ c.op = "Encrypt" /\ d.op = "Decrypt"
      /\ Len(c.src) = 2 * BlockBytes /\ c.i = 1
      /\ Len(d.src) = 2 * BlockBytes /\ d.i = 1
      /\ Block(c.dst, 0) # Block(c.src, 0)
      /\ Block(d.dst, 0) # Block(d.src, 0)

=============================================================================
